---- MODULE Spec2Model ----
(***************************************************************************)
(* scroll3Dexplorer: the tile downloader / pyramid assembler (dl.py) and   *)
(* the 3D navigator (main.py, uiutils.py, h5fsutil.py) as state machines.  *)
(*                                                                         *)
(* The repository holds two entry points that share nothing at run time    *)
(* but the container file, so a behaviour of this module is a behaviour of *)
(* one of them; `program` says which:                                      *)
(*   "dl"    ScrollDataDownloader.download_and_apply_roi, run after run    *)
(*   "name"  ScrollDataDownloader._get_grid_cell_original_name on its own  *)
(*   "nav"   Scroll3DExplorer's event loop                                 *)
(*   "keys"  the same event loop in a session where only the keyboard and  *)
(*           the wheel are used, followed for more events                  *)
(***************************************************************************)
EXTENDS Integers, Sequences, FiniteSets, TLC

VARIABLES
    program,            \* which entry point this behaviour runs
    \* ---- dl.py: ScrollDataDownloader ----------------------------------
    actions,            \* --actions value of the current run
    roi,                \* self.roi = <<x0, x1, y0, y1, z0, z1>>
    h5fs_scroll_shape,  \* self.h5fs_scroll_shape = <<y, x, z>>
    files,              \* names of the files present in download_dir
    store,              \* boxes written to the datasets of the container
    f,                  \* the h5py.File handle: "none" | "open" | "closed"
    pc,                 \* position of the run
    x0, y0, z0,         \* the locals x0, y0, z0 of download_and_apply_roi
    x, y, z,            \* the loop variables
    count, total_count, \* the locals count and total_count
    fetched,            \* names requested over the network in this run
    newly,              \* tiles whose download returned True in this run
    written,            \* <<tile, level index>> written in this run
    order,              \* tiles whose loop body was entered, in order
    runs, faults,       \* runs started, injected failures so far
    \* ---- _get_grid_cell_original_name alone ---------------------------
    probe,              \* two argument triples <<x, y, z>>
    named,              \* their results, <<>> before the call
    \* ---- main.py: Scroll3DExplorer, uiutils.py: Drag ------------------
    dset_scale,             \* scale of the dataset H5FS.open() returned
    dset_shape,             \* self.scrolldata.dset.shape
    canvas_size,            \* <<winfo_width(), winfo_height()>> of the canvas
    position_yxz,           \* self.position_yxz
    canvas_display_matrix,  \* self.canvas_display_matrix
    drag,                   \* self.drag: the attributes of the Drag object
    scrolldata_loaded,      \* the extent of the chunk held in memory
    window_close_requested, \* self._window_close_requested
    scrolldata_open,        \* whether the H5FS handle is open
    ui,                     \* "running" | "stalled" | "destroyed"
    rendered,               \* the matrix the last tick handed to
                            \* affine_transform, Unset once a handler ran
    loads,                  \* calls of load_scroll_data_around_current_position
    events,                 \* input events delivered so far
    hist                    \* the handlers run so far, each with the
                            \* transform and the position it left

dlVars == <<actions, roi, h5fs_scroll_shape, files, store, f, pc, x0, y0, z0,
            x, y, z, count, total_count, fetched, newly, written, order,
            runs, faults>>
nameVars == <<probe, named>>
navVars == <<dset_scale, dset_shape, canvas_size, position_yxz,
             canvas_display_matrix, drag, scrolldata_loaded,
             window_close_requested, scrolldata_open, ui, rendered, loads,
             events, hist>>
vars == <<program, dlVars, nameVars, navVars>>

(***************************************************************************)
(* Bounds of the model.                                                    *)
(***************************************************************************)
MaxSpan == 5        \* tiles along the longest region of interest
MaxRuns == 2        \* runs of the downloader in one behaviour
MaxFaults == 1      \* injected I/O failures in one behaviour
MaxDigits == 3      \* probe coordinates reach 10^MaxDigits - 1
MaxEvents == 3      \* input events delivered to the navigator
MaxKeys == 4        \* the same in a session of keys and wheel alone

(***************************************************************************)
(* Arithmetic as Python computes it.                                       *)
(***************************************************************************)
Max(a, b) == IF a >= b THEN a ELSE b
Min(a, b) == IF a <= b THEN a ELSE b

\* math.ceil(a / 500.0) for an int a: the least integer >= a / b
Ceil(a, b) == -((-a) \div b)

\* Python's round(n / s): round half to even
Round(n, s) ==
    LET q == n \div s
        r == n % s
    IN  IF 2 * r < s THEN q
        ELSE IF 2 * r > s THEN q + 1
        ELSE IF q % 2 = 0 THEN q ELSE q + 1

RECURSIVE Pow10(_)
Pow10(k) == IF k = 0 THEN 1 ELSE 10 * Pow10(k - 1)

(***************************************************************************)
(* Program constants of dl.py.                                             *)
(***************************************************************************)
TILE == 500
None == 0           \* the scale of the canonical level
SCROLL_MULTIZOOM_LEVELS ==
    << <<None, "scroll">>, <<2, "scroll_scale_2">>, <<4, "scroll_scale_4">> >>
NLevels == Len(SCROLL_MULTIZOOM_LEVELS)
Scale(i) == SCROLL_MULTIZOOM_LEVELS[i][1]
\* the factor a level divides by: 1 for the canonical level
Factor(i) == IF Scale(i) = None THEN 1 ELSE Scale(i)

Actions == {"download", "download-apply", "apply", "dummy"}

\* arguments.actions.value.split("-")
SplitDash(a) ==
    IF a = "download-apply" THEN {"download", "apply"} ELSE {a}

allow_downloading(a) == "download" \in SplitDash(a)
apply_if_downloaded(a) == "apply" \in SplitDash(a)
apply_always(a) == a = "apply"
dummy(a) == a = "dummy"
\* mutant: the container is opened whatever the action mode
Applying_Unconditional(a) == TRUE

Applying(a) == apply_if_downloaded(a) \/ apply_always(a)

(***************************************************************************)
(* _get_grid_cell_original_name: f"cell_yxz_{y+1:03}_{x+1:03}_{z+1:03}.tif"*)
(* A name is a sequence of characters.                                     *)
(***************************************************************************)
DigitChar == <<"0", "1", "2", "3", "4", "5", "6", "7", "8", "9">>

RECURSIVE Decimal(_)
\* str(n) for n >= 0
Decimal(n) ==
    IF n < 10 THEN <<DigitChar[n + 1]>>
    ELSE Decimal(n \div 10) \o <<DigitChar[(n % 10) + 1]>>

RECURSIVE ZeroPad(_, _)
ZeroPad(s, w) == IF Len(s) >= w THEN s ELSE ZeroPad(<<"0">> \o s, w)

\* mutant: a field of exactly three digits, the leading ones dropped
Format03_FixedWidth(n) == ZeroPad(Decimal(n % 1000), 3)

\* format(n, "03") for n >= 0: at least three digits, more when n needs them
Format03(n) == ZeroPad(Decimal(n), 3)

Prefix == <<"c", "e", "l", "l", "_", "y", "x", "z", "_">>
Suffix == <<".", "t", "i", "f">>

\* the result of the call: the name, or the exception raised
GetGridCellOriginalName(gx, gy, gz) ==
    IF gx < 0 \/ gy < 0 \/ gz < 0
    THEN [raised |-> TRUE, name |-> <<>>]
    ELSE [raised |-> FALSE,
          name |-> Prefix \o Format03(gy + 1) \o <<"_">> \o Format03(gx + 1)
                   \o <<"_">> \o Format03(gz + 1) \o Suffix]

(***************************************************************************)
(* _download_if_not_exists: which of its four exits a call takes.          *)
(*   "exists"  the file is there: return False                             *)
(*   "dummy"   dry run: return False                                       *)
(*   "raise"   the file is missing and downloading is not allowed          *)
(*   "get"     self.r.get(...), write the file, return True                *)
(***************************************************************************)
DownloadIfNotExists(output_filename, a, present) ==
    IF output_filename \in present THEN "exists"
    ELSE IF dummy(a) THEN "dummy"
    ELSE IF ~allow_downloading(a) THEN "raise"
    ELSE "get"

\* mutant: the test of newly_downloaded is forgotten
ShouldApply_IgnoringDownload(newly_downloaded, a) ==
    apply_if_downloaded(a) \/ apply_always(a)

\* line 134: (newly_downloaded and self.apply_if_downloaded) or self.apply_always
\* mutant: only the forced mode applies
ShouldApply_ForcedOnly(newly_downloaded, a) == a = "apply"

ShouldApply(newly_downloaded, a) ==
    (newly_downloaded /\ apply_if_downloaded(a)) \/ apply_always(a)

(***************************************************************************)
(* The tile array and the boxes written for it.                            *)
(***************************************************************************)
\* a.shape after the transpose: 500 per axis, clipped at the volume's edge
TileShape(t) ==
    [k \in 1..3 |-> Min(TILE, h5fs_scroll_shape[k] - TILE * t[k])]
InVolume(t) == \A k \in 1..3 : TileShape(t)[k] > 0

\* scipy.ndimage.zoom(a, 1 / scale).shape: round(n * zoom) per axis
ZoomedShape(shape, i) ==
    IF Scale(i) = None THEN shape
    ELSE [k \in 1..3 |-> Round(shape[k], Scale(i))]

\* mutant: the grid coordinate is divided before it is scaled to voxels
Origin_DividedFirst(t, i) ==
    IF Scale(i) = None THEN [k \in 1..3 |-> t[k] * TILE]
    ELSE [k \in 1..3 |-> (t[k] \div Scale(i)) * TILE]

\* lines 146 and 149: the values assigned to y0, x0, z0 for level i
Origin(t, i) ==
    IF Scale(i) = None THEN [k \in 1..3 |-> t[k] * TILE]
    ELSE [k \in 1..3 |-> (t[k] * TILE) \div Scale(i)]

\* line 116: the shape the dataset of level i is required with
DsetShape(i) ==
    IF Scale(i) = None THEN h5fs_scroll_shape
    ELSE [k \in 1..3 |-> Ceil(h5fs_scroll_shape[k], Scale(i))]

Box(t, i) ==
    [level |-> i, tile |-> t, origin |-> Origin(t, i),
     shape |-> ZoomedShape(TileShape(t), i)]

\* h5py refuses an assignment whose box does not lie in the dataset
Fits(b) ==
    \A k \in 1..3 : b.origin[k] + b.shape[k] <= DsetShape(b.level)[k]

(***************************************************************************)
(* The three nested range() loops, lines 124-126.  A range is evaluated    *)
(* when its for statement is entered: the x range once per y, the z range  *)
(* once per x, each from the value x0 / z0 has at that moment.             *)
(***************************************************************************)
YStop == Ceil(roi[4], TILE)
XStop == Ceil(roi[2], TILE)
ZStop == Ceil(roi[6], TILE)
\* mutant: the lower end of a range is not clamped at 0
RangeStart_Unclamped(v0) == v0 \div TILE

RangeStart(v0) == Max(0, v0 \div TILE)

NoTile == <<>>

RECURSIVE ScanX(_, _, _, _), ScanY(_, _, _)
\* the first tile <<y, x, z>> whose body runs, the x loop standing at xv
ScanX(yv, xv, x0c, z0c) ==
    IF xv >= XStop THEN ScanY(yv + 1, x0c, z0c)
    ELSE IF RangeStart(z0c) < ZStop THEN <<yv, xv, RangeStart(z0c)>>
    ELSE ScanX(yv, xv + 1, x0c, z0c)
\* the same, the y loop standing at yv
ScanY(yv, x0c, z0c) ==
    IF yv >= YStop THEN NoTile
    ELSE ScanX(yv, RangeStart(x0c), x0c, z0c)

\* mutant: x runs in the innermost loop and z in the middle one
NextTile_XInnermost(yv, xv, zv, x0c, z0c) ==
    IF xv + 1 < XStop THEN <<yv, xv + 1, zv>>
    ELSE IF zv + 1 < ZStop THEN <<yv, RangeStart(x0c), zv + 1>>
    ELSE ScanY(yv + 1, x0c, z0c)

\* the tile after <<yv, xv, zv>>, x0 and z0 having the values x0c and z0c
NextTile(yv, xv, zv, x0c, z0c) ==
    IF zv + 1 < ZStop THEN <<yv, xv, zv + 1>>
    ELSE ScanX(yv, xv + 1, x0c, z0c)

\* line 121
TotalCount ==
    (Ceil(roi[4], TILE) - roi[3] \div TILE)
    * (Ceil(roi[2], TILE) - roi[1] \div TILE)
    * (Ceil(roi[6], TILE) - roi[5] \div TILE)

(***************************************************************************)
(* Inputs: the command lines the model runs the downloader with.           *)
(***************************************************************************)
\* --roi-xyz as <<x0, x1, y0, y1, z0, z1>>: one tile; a whole volume
\* MaxSpan tiles wide and two rows high; a region away from the origin;
\* negative lower bounds; a whole volume whose last tile is 5 wide;
\* a region straddling one tile boundary
Rois == { <<0, TILE, 0, TILE, 0, TILE>>,
          <<0, TILE * MaxSpan, 0, 2 * TILE, 0, TILE>>,
          <<2 * TILE, 4 * TILE, 0, 2 * TILE, 0, TILE>>,
          <<-600, 700, -1, 1, 0, TILE>>,
          <<0, TILE + 5, 0, TILE, 0, 2 * TILE>>,
          <<0, TILE, TILE - 1, TILE + 1, 0, TILE>> }

\* --scroll-size-xyz, kept as (y, x, z)
Shapes == {<<2 * TILE, TILE * MaxSpan, TILE>>, <<TILE, TILE + 5, 2 * TILE>>}

\* the tiles of the grid box from the origin to the region's upper corner
GridBox(r) ==
    {<<gy, gx, gz>> : gy \in 0..(Ceil(r[4], TILE) - 1),
                      gx \in 0..(Ceil(r[2], TILE) - 1),
                      gz \in 0..(Ceil(r[6], TILE) - 1)}
NameOf(t) == GetGridCellOriginalName(t[2], t[1], t[3]).name

\* download_dir before the first run: empty, complete, or every other tile
InitialFiles(r) ==
    { {}, {NameOf(t) : t \in GridBox(r)},
      {NameOf(t) : t \in {u \in GridBox(r) : (u[1] + u[2] + u[3]) % 2 = 0}} }

\* what may go wrong in one loop body beyond what the code decides itself:
\* the request raises, the file does not decode, the write of level i fails
Faults == {<<"none", 0>>, <<"fetch", 0>>, <<"decode", 0>>}
          \cup {<<"write", i>> : i \in 1..NLevels}

ProbeCoords == {-1, 0} \cup {Pow10(k) - 1 : k \in 1..MaxDigits}
ProbeTriples == ProbeCoords \X ProbeCoords \X ProbeCoords

(***************************************************************************)
(* main.py and uiutils.py: 4x4 matrices.  An entry is a fixed-point number *)
(* with ONE standing for 1.0; a product is rounded to the nearest unit as  *)
(* a float product is rounded to the nearest float.                        *)
(***************************************************************************)
ONE == 10000

\* a * b in fixed point; exact, and computed without a wide intermediate
\* product, when a factor is a whole number
FMul(a, b) ==
    IF b % ONE = 0 THEN a * (b \div ONE)
    ELSE IF a % ONE = 0 THEN (a \div ONE) * b
    ELSE Round(a * b, ONE)

\* numpy's A @ B: one entry, one row, the product
MatCell(A, B, i, j) ==
    FMul(A[i][1], B[1][j]) + FMul(A[i][2], B[2][j])
    + FMul(A[i][3], B[3][j]) + FMul(A[i][4], B[4][j])
MatRow(A, B, i) ==
    <<MatCell(A, B, i, 1), MatCell(A, B, i, 2), MatCell(A, B, i, 3),
      MatCell(A, B, i, 4)>>
MatMul(A, B) ==
    <<MatRow(A, B, 1), MatRow(A, B, 2), MatRow(A, B, 3), MatRow(A, B, 4)>>

\* np.identity(4)
Identity4 ==
    << <<ONE, 0, 0, 0>>, <<0, ONE, 0, 0>>, <<0, 0, ONE, 0>>, <<0, 0, 0, ONE>> >>

\* math.cos and math.sin of a whole number of degrees, in fixed point
CosDeg(d) ==
    CASE d = 0 -> ONE
      [] d \in {1, -1} -> 9998
      [] d \in {2, -2} -> 9994
      [] d \in {90, -90} -> 0
SinDeg(d) ==
    CASE d = 0 -> 0
      [] d = 1 -> 175
      [] d = -1 -> -175
      [] d = 2 -> 349
      [] d = -2 -> -349
      [] d = 90 -> ONE
      [] d = -90 -> -ONE

CANVAS_PAD == 150

\* math.ceil(math.sqrt(n)) for a whole number n up to (2 * CANVAS_PAD)^2
CeilSqrt(n) ==
    CHOOSE r \in 0..(2 * CANVAS_PAD) : r * r >= n /\ (r = 0 \/ (r - 1) * (r - 1) < n)

SCROLLDATA_CACHE_PAD == CeilSqrt(3 * CANVAS_PAD * CANVAS_PAD)
SHIFT_TO_SCROLLDATA_LOADED_CENTER ==
    << <<ONE, 0, 0, SCROLLDATA_CACHE_PAD * ONE>>,
       <<0, ONE, 0, SCROLLDATA_CACHE_PAD * ONE>>,
       <<0, 0, ONE, SCROLLDATA_CACHE_PAD * ONE>>,
       <<0, 0, 0, ONE>> >>

\* h5fsutil.py: the datasets of the container in the order h5py iterates
\* its keys, which is by name: the order dl.py declares them in
ContainerDatasets == SCROLL_MULTIZOOM_LEVELS

\* H5FS._h5_get_dataset_info(None): the first dataset met, whatever its name
H5GetDatasetInfo(datasets) == datasets[1]

\* H5FS.open(): the scale of the dataset self.dset stands for
OpenedScale ==
    LET info == H5GetDatasetInfo(ContainerDatasets)
    IN  IF info[1] = None THEN 1 ELSE info[1]

\* a Python None held by an attribute that otherwise holds an array
Unset == <<>>

\* Drag as the class body leaves it: no drag, no matrix
NewDrag ==
    [drag_in_progress |-> FALSE, drag_start_x |-> 0, drag_start_y |-> 0,
     drag_is_rotation |-> FALSE, transformation_matrix |-> Unset]

NavIdle ==
    /\ dset_scale = 0
    /\ dset_shape = <<0, 0, 0>>
    /\ canvas_size = <<0, 0>>
    /\ position_yxz = <<0, 0, 0>>
    /\ canvas_display_matrix = Unset
    /\ drag = NewDrag
    /\ scrolldata_loaded = Unset
    /\ window_close_requested = FALSE
    /\ scrolldata_open = FALSE
    /\ ui = "off"
    /\ rendered = Unset
    /\ loads = 0
    /\ events = 0
    /\ hist = <<>>

NameIdle == /\ probe = <<>>
            /\ named = <<>>

DlIdle ==
    /\ actions = "dummy"
    /\ roi = <<0, 0, 0, 0, 0, 0>>
    /\ h5fs_scroll_shape = <<0, 0, 0>>
    /\ files = {} /\ store = {} /\ f = "none" /\ pc = "off"
    /\ x0 = 0 /\ y0 = 0 /\ z0 = 0 /\ x = 0 /\ y = 0 /\ z = 0
    /\ count = 0 /\ total_count = 0
    /\ fetched = {} /\ newly = {} /\ written = {} /\ order = <<>>
    /\ runs = 0 /\ faults = 0

(***************************************************************************)
(* ScrollDataDownloader: before main() is first called.                    *)
(***************************************************************************)
InitDl ==
    /\ program = "dl"
    /\ roi \in Rois
    /\ h5fs_scroll_shape \in Shapes
    /\ files \in InitialFiles(roi)
    /\ actions = "dummy"
    /\ store = {} /\ f = "none" /\ pc = "idle"
    /\ x0 = roi[1] /\ y0 = roi[3] /\ z0 = roi[5]
    /\ x = 0 /\ y = 0 /\ z = 0
    /\ count = 0 /\ total_count = 0
    /\ fetched = {} /\ newly = {} /\ written = {} /\ order = <<>>
    /\ runs = 0 /\ faults = 0
    /\ NameIdle
    /\ NavIdle

InitName ==
    /\ program = "name"
    /\ probe \in ProbeTriples \X ProbeTriples
    /\ named = <<>>
    /\ DlIdle
    /\ NavIdle

(***************************************************************************)
(* main(): __init__ and download_and_apply_roi up to the first loop body   *)
(* (lines 40-43 and 109-126).  The exception of a dataset that cannot be   *)
(* required leaves through the finally clause.                             *)
(***************************************************************************)
Start(a, fault) ==
    /\ program = "dl"
    /\ pc \in {"idle", "done", "failed"}
    /\ runs < MaxRuns
    /\ fault \in {"none", "open"}
    /\ fault = "open" => Applying(a) /\ faults < MaxFaults
    /\ actions' = a
    /\ runs' = runs + 1
    /\ faults' = IF fault = "open" THEN faults + 1 ELSE faults
    /\ x0' = roi[1] /\ y0' = roi[3] /\ z0' = roi[5]
    /\ fetched' = {} /\ newly' = {} /\ written' = {} /\ order' = <<>>
    /\ count' = 0
    /\ IF fault = "open"
       THEN /\ f' = "closed"
            /\ pc' = "failed"
            /\ total_count' = 0
            /\ UNCHANGED <<x, y, z>>
       ELSE LET first == ScanY(RangeStart(roi[3]), roi[1], roi[5])
            IN  /\ total_count' = TotalCount
                /\ IF first = NoTile
                   THEN /\ pc' = "done"
                        /\ f' = IF Applying(a) THEN "closed" ELSE "none"
                        /\ UNCHANGED <<x, y, z>>
                   ELSE /\ pc' = "tile"
                        /\ f' = IF Applying(a) THEN "open" ELSE "none"
                        /\ y' = first[1] /\ x' = first[2] /\ z' = first[3]
    /\ UNCHANGED <<program, roi, h5fs_scroll_shape, files, store, nameVars,
                   navVars>>

(***************************************************************************)
(* Where the run stands after a loop body: the try statement of line 111   *)
(* has a finally clause and no except clause, so an exception raised in a  *)
(* body leaves all three loops; otherwise the loops go on to the next tile *)
(* or run out.                                                             *)
(***************************************************************************)
\* mutant: an except clause swallows the exception and the loops go on
AfterBody_Swallowed(raised, next) ==
    IF next = NoTile THEN "done" ELSE "tile"

AfterBody(raised, next) ==
    IF raised THEN "failed"
    ELSE IF next = NoTile THEN "done"
    ELSE "tile"

(***************************************************************************)
(* One body of the innermost loop, lines 127-156, and what follows it: the *)
(* next body, or "Done." and the finally clause, or an exception and the   *)
(* finally clause.                                                         *)
(***************************************************************************)
ProcessTile(fault) ==
    /\ program = "dl"
    /\ pc = "tile"
    /\ fault \in Faults
    /\ fault[1] # "none" => faults < MaxFaults
    /\ LET t == <<y, x, z>>
           tif == GetGridCellOriginalName(x, y, z)
           exit == IF tif.raised THEN "raise"
                   ELSE DownloadIfNotExists(tif.name, actions, files)
           newly_downloaded == exit = "get" /\ fault[1] # "fetch"
           files1 == IF newly_downloaded THEN files \cup {tif.name} ELSE files
           raised1 == exit = "raise" \/ (exit = "get" /\ fault[1] = "fetch")
           applies == ~raised1 /\ ShouldApply(newly_downloaded, actions)
           \* io.imread: a missing, broken or foreign file does not decode
           raised2 == applies /\ (fault[1] = "decode" \/ ~InVolume(t)
                                    \/ tif.name \notin files1)
           writes == applies /\ ~raised2
           \* the first level whose write raises, NLevels + 1 when none does
           bad == {i \in 1..NLevels : fault = <<"write", i>> \/ ~Fits(Box(t, i))}
           stop == IF writes /\ bad # {}
                   THEN CHOOSE i \in bad : \A j \in bad : i <= j
                   ELSE NLevels + 1
           done == IF writes THEN 1..(stop - 1) ELSE {}
           last == Min(stop, NLevels)
           raised == raised1 \/ raised2 \/ (writes /\ stop <= NLevels)
           ny0 == IF writes THEN Origin(t, last)[1] ELSE y0
           nx0 == IF writes THEN Origin(t, last)[2] ELSE x0
           nz0 == IF writes THEN Origin(t, last)[3] ELSE z0
           next == NextTile(y, x, z, nx0, nz0)
       IN  /\ fault[1] = "fetch" => exit = "get"
           /\ fault[1] = "decode" => applies
           /\ fault[1] = "write" => writes
           /\ files' = files1
           /\ fetched' = IF exit = "get" THEN fetched \cup {tif.name} ELSE fetched
           /\ newly' = IF newly_downloaded THEN newly \cup {t} ELSE newly
           /\ store' = store \cup {Box(t, i) : i \in done}
           /\ written' = written \cup {<<t, i>> : i \in done}
           /\ order' = Append(order, t)
           /\ y0' = ny0 /\ x0' = nx0 /\ z0' = nz0
           /\ faults' = IF fault[1] # "none" THEN faults + 1 ELSE faults
           /\ pc' = AfterBody(raised, next)
           /\ count' = IF raised THEN count ELSE count + 1
           /\ f' = IF pc' \in {"done", "failed"} /\ Applying(actions)
                   THEN "closed" ELSE f
           /\ IF pc' = "tile"
              THEN y' = next[1] /\ x' = next[2] /\ z' = next[3]
              ELSE UNCHANGED <<x, y, z>>
    /\ UNCHANGED <<program, actions, roi, h5fs_scroll_shape, total_count, runs,
                   nameVars, navVars>>

(***************************************************************************)
(* _get_grid_cell_original_name called on its own, on two argument triples.*)
(***************************************************************************)
NameProbe ==
    /\ program = "name"
    /\ named = <<>>
    /\ named' = <<GetGridCellOriginalName(probe[1][1], probe[1][2], probe[1][3]),
                  GetGridCellOriginalName(probe[2][1], probe[2][2], probe[2][3])>>
    /\ UNCHANGED <<program, probe, dlVars, navVars>>

(***************************************************************************)
(* Scroll3DExplorer: the navigator.                                        *)
(***************************************************************************)
\* get_current_position: the stored position plus the rounded translation
GetCurrentPosition(M) ==
    [k \in 1..3 |-> position_yxz[k] + Round(M[k][4], ONE)]

\* 1.0 / canvas_display_matrix[0, 0]; numpy gives inf for a zero entry
GetCurrentZoom(M) ==
    IF M[1][1] = 0 THEN "inf" ELSE Round(ONE * ONE, M[1][1])

\* slice(start, stop).indices(length): the first index and the count
SliceIndices(start, stop, length) ==
    LET lo == IF start < 0 THEN Max(start + length, 0) ELSE Min(start, length)
        hi == IF stop < 0 THEN Max(stop + length, 0) ELSE Min(stop, length)
    IN  <<lo, Max(0, hi - lo)>>

\* the chunk dset[y - pad : y + pad + 1, x - pad : ..., z - pad : ...]
Chunk(pos) ==
    LET pad == SCROLLDATA_CACHE_PAD
        ix(k) == SliceIndices(pos[k] - pad, pos[k] + pad + 1, dset_shape[k])
    IN  [first |-> [k \in 1..3 |-> ix(k)[1]], shape |-> [k \in 1..3 |-> ix(k)[2]]]

\* marking the faces (lines 166-171) raises IndexError on an empty axis
MarkingRaises(chunk) == \E k \in 1..3 : chunk.shape[k] = 0

\* lines 178-182: R[:, 3] = 0; R[3, :] = 0; R[3, 3] = 1
StripTranslation(M) ==
    [i \in 1..4 |-> [j \in 1..4 |->
        IF i = 4 /\ j = 4 THEN ONE
        ELSE IF i = 4 \/ j = 4 THEN 0
        ELSE M[i][j]]]

\* mutant: the two cosines on the diagonal are left at 1
Rotate90Matrix_DiagonalKept(axis) ==
    LET others == {a \in 0..2 : a # axis}
        i == (CHOOSE a \in others : \A b \in others : a <= b) + 1
        j == (CHOOSE a \in others : \A b \in others : a >= b) + 1
        e(r, c) == IF r = i /\ c = j THEN ONE
                   ELSE IF r = j /\ c = i THEN -ONE
                   ELSE IF r = c THEN ONE ELSE 0
    IN  << <<e(1, 1), e(1, 2), e(1, 3), e(1, 4)>>,
           <<e(2, 1), e(2, 2), e(2, 3), e(2, 4)>>,
           <<e(3, 1), e(3, 2), e(3, 3), e(3, 4)>>,
           <<e(4, 1), e(4, 2), e(4, 3), e(4, 4)>> >>

\* rotate90: the matrix R; axis is 0, 1 or 2
Rotate90Matrix(axis) ==
    LET others == {a \in 0..2 : a # axis}
        i == (CHOOSE a \in others : \A b \in others : a <= b) + 1
        j == (CHOOSE a \in others : \A b \in others : a >= b) + 1
        e(r, c) == IF r = i /\ c = i THEN 0
                   ELSE IF r = i /\ c = j THEN ONE
                   ELSE IF r = j /\ c = i THEN -ONE
                   ELSE IF r = j /\ c = j THEN 0
                   ELSE IF r = c THEN ONE ELSE 0
    IN  << <<e(1, 1), e(1, 2), e(1, 3), e(1, 4)>>,
           <<e(2, 1), e(2, 2), e(2, 3), e(2, 4)>>,
           <<e(3, 1), e(3, 2), e(3, 3), e(3, 4)>>,
           <<e(4, 1), e(4, 2), e(4, 3), e(4, 4)>> >>

\* rotate90, line 151
Rotate90(M, axis) == MatMul(M, Rotate90Matrix(axis))

\* mutant: zooming in scales by 0.9, which does not undo 1.1
ZoomMatrix_NotInverse(delta) ==
    LET scale == IF delta < 0 THEN 11000 ELSE 9000
    IN  << <<scale, 0, 0, 0>>, <<0, scale, 0, 0>>, <<0, 0, scale, 0>>,
           <<0, 0, 0, ONE>> >>

\* zoom: scale = 1.1 if delta < 0 else 1 / 1.1
ZoomMatrix(delta) ==
    LET scale == IF delta < 0 THEN 11000 ELSE 9091
    IN  << <<scale, 0, 0, 0>>, <<0, scale, 0, 0>>, <<0, 0, scale, 0>>,
           <<0, 0, 0, ONE>> >>

MoveInOutMatrix(delta) ==
    << <<ONE, 0, 0, 0>>, <<0, ONE, 0, 0>>, <<0, 0, ONE, delta * ONE>>,
       <<0, 0, 0, ONE>> >>

\* mutant: the sine has the same sign in both rows
RotateSidewaysMatrix_SignSlip(delta) ==
    << <<CosDeg(delta), SinDeg(delta), 0, 0>>,
       <<SinDeg(delta), CosDeg(delta), 0, 0>>,
       <<0, 0, ONE, 0>>, <<0, 0, 0, ONE>> >>

\* rotate_sideways: fi = delta * math.pi / 180
RotateSidewaysMatrix(delta) ==
    << <<CosDeg(delta), SinDeg(delta), 0, 0>>,
       <<-SinDeg(delta), CosDeg(delta), 0, 0>>,
       <<0, 0, ONE, 0>>, <<0, 0, 0, ONE>> >>

\* mutant: each move is composed with the matrix the last move left
DragMatrix_Accumulating(d, ex, ey) ==
    LET diff_x == ex - d.drag_start_x
        diff_y == ey - d.drag_start_y
        Rh == << <<ONE, 0, 0, 0>>,
                 <<0, CosDeg(diff_x), SinDeg(diff_x), 0>>,
                 <<0, -SinDeg(diff_x), CosDeg(diff_x), 0>>,
                 <<0, 0, 0, ONE>> >>
        Rv == << <<CosDeg(diff_y), 0, SinDeg(diff_y), 0>>,
                 <<0, ONE, 0, 0>>,
                 <<-SinDeg(diff_y), 0, CosDeg(diff_y), 0>>,
                 <<0, 0, 0, ONE>> >>
    IN  MatMul(d.transformation_matrix,
               IF d.drag_is_rotation THEN MatMul(Rh, Rv)
               ELSE << <<ONE, 0, 0, -diff_y * ONE>>,
                       <<0, ONE, 0, -diff_x * ONE>>,
                       <<0, 0, ONE, 0>>, <<0, 0, 0, ONE>> >>)

\* Drag.on_drag_move: the matrix for the pointer at (ex, ey)
DragMatrix(d, ex, ey) ==
    LET diff_x == ex - d.drag_start_x
        diff_y == ey - d.drag_start_y
        Rh == << <<ONE, 0, 0, 0>>,
                 <<0, CosDeg(diff_x), SinDeg(diff_x), 0>>,
                 <<0, -SinDeg(diff_x), CosDeg(diff_x), 0>>,
                 <<0, 0, 0, ONE>> >>
        Rv == << <<CosDeg(diff_y), 0, SinDeg(diff_y), 0>>,
                 <<0, ONE, 0, 0>>,
                 <<-SinDeg(diff_y), 0, CosDeg(diff_y), 0>>,
                 <<0, 0, 0, ONE>> >>
    IN  IF d.drag_is_rotation THEN MatMul(Rh, Rv)
        ELSE << <<ONE, 0, 0, -diff_y * ONE>>, <<0, ONE, 0, -diff_x * ONE>>,
                <<0, 0, ONE, 0>>, <<0, 0, 0, ONE>> >>

\* mutant: the drag's matrix is applied on the left
RollUp_Reversed(M, D) == MatMul(D, M)

\* on_canvas_drag_end, line 194: the drag rolled up into the display matrix
RollUp(M, D) == MatMul(M, D)

\* event.state bits: Control is 0x04, Alt is 0x08 or 0x80
IsCtrlPressed(state) == (state \div 4) % 2 = 1
IsAltPressed(state) == (state \div 8) % 2 = 1 \/ (state \div 128) % 2 = 1

\* mutant: the drag in progress is not looked at
RenderMatrix_IgnoringDrag(M, d) ==
    LET pw == canvas_size[1] \div 2
        ph == canvas_size[2] \div 2
        unshift == << <<ONE, 0, 0, -ph * ONE>>, <<0, ONE, 0, -pw * ONE>>,
                      <<0, 0, ONE, 0>>, <<0, 0, 0, ONE>> >>
    IN  MatMul(MatMul(SHIFT_TO_SCROLLDATA_LOADED_CENTER, M), unshift)

\* mutant: the raster is not shifted back to the canvas's center
RenderMatrix_NoUnshift(M, d) ==
    IF d.drag_in_progress
    THEN MatMul(MatMul(SHIFT_TO_SCROLLDATA_LOADED_CENTER, M),
                d.transformation_matrix)
    ELSE MatMul(SHIFT_TO_SCROLLDATA_LOADED_CENTER, M)

\* update_canvas: the matrix handed to scipy.ndimage.affine_transform
RenderMatrix(M, d) ==
    LET pw == canvas_size[1] \div 2
        ph == canvas_size[2] \div 2
        unshift == << <<ONE, 0, 0, -ph * ONE>>, <<0, ONE, 0, -pw * ONE>>,
                      <<0, 0, ONE, 0>>, <<0, 0, 0, ONE>> >>
    IN  IF d.drag_in_progress
        THEN MatMul(MatMul(MatMul(SHIFT_TO_SCROLLDATA_LOADED_CENTER, M),
                           d.transformation_matrix), unshift)
        ELSE MatMul(MatMul(SHIFT_TO_SCROLLDATA_LOADED_CENTER, M), unshift)

\* update_nav3d_display indexes the dataset with one whole number per view;
\* h5py raises for an index outside -length .. length - 1
Nav3dRaises(pos) == \E k \in 1..3 : pos[k] < -dset_shape[k] \/ pos[k] >= dset_shape[k]

\* the shape of the dataset opened
NavShapes == {<<1000, 1000, 1000>>}

\* how the navigator is started: --yxz, --zoom (0 when it is not given) and
\* the size Tk gives the main canvas, <<width, height>>: the raster of
\* 2 * CANVAS_PAD + 1 pixels a side, or the canvas of a maximised window
NavStarts ==
    { [yxz |-> <<500, 300, 998>>, zoom |-> 0, canvas |-> <<801, 601>>],
      [yxz |-> <<500, 500, 500>>, zoom |-> ONE,
       canvas |-> <<2 * CANVAS_PAD + 1, 2 * CANVAS_PAD + 1>>],
      [yxz |-> <<500, 500, 500>>, zoom |-> 2 * ONE,
       canvas |-> <<2 * CANVAS_PAD + 1, 2 * CANVAS_PAD + 1>>],
      [yxz |-> <<500, 500, 260>>, zoom |-> ONE \div 2,
       canvas |-> <<2 * CANVAS_PAD + 1, 2 * CANVAS_PAD + 1>>] }

\* pointer positions of the drag events, and the event.state values
DragStartPoint == <<100, 100>>
DragPoints == {<<102, 99>>, <<190, 100>>}
EventStates == {0, 4, 8}

(***************************************************************************)
(* Scroll3DExplorer.__init__, lines 39-59, the first chunk loaded and the  *)
(* first tick scheduled.                                                   *)
(***************************************************************************)
Constructed ==
    /\ dset_scale = OpenedScale
    /\ dset_shape \in NavShapes
    /\ \E start \in NavStarts :
          /\ position_yxz = start.yxz
          /\ canvas_size = start.canvas
          /\ canvas_display_matrix =
                 IF start.zoom = 0 THEN Identity4
                 ELSE [i \in 1..4 |-> [j \in 1..4 |->
                          IF i = 4 /\ j = 4 THEN ONE
                          ELSE Round(Identity4[i][j] * ONE, start.zoom)]]
    /\ drag = NewDrag
    /\ scrolldata_loaded = Chunk(position_yxz)
    /\ ~MarkingRaises(scrolldata_loaded)
    /\ window_close_requested = FALSE
    /\ scrolldata_open = TRUE
    /\ ui = "running"
    /\ rendered = Unset
    /\ loads = 1
    /\ events = 0
    /\ hist = << [op |-> "init", arg |-> "", M |-> canvas_display_matrix,
                  pos |-> position_yxz] >>
    /\ DlIdle
    /\ NameIdle

InitNav == program = "nav" /\ Constructed
InitKeys == program = "keys" /\ Constructed

\* an input event can be delivered: the window exists
Delivered ==
    /\ program \in {"nav", "keys"}
    /\ ui \in {"running", "stalled"}
    /\ events < (IF program = "keys" THEN MaxKeys ELSE MaxEvents)
    /\ events' = events + 1
    /\ rendered' = Unset
    /\ UNCHANGED <<program, dlVars, nameVars, dset_scale, dset_shape,
                   canvas_size, scrolldata_open, ui>>

\* the events of the pointer's buttons and of the window manager
Pointer == program = "nav" /\ Delivered

\* the handler that ran, with the transform and the position it left
Recorded(op, arg) ==
    hist' = Append(hist, [op |-> op, arg |-> arg,
                          M |-> canvas_display_matrix', pos |-> position_yxz'])

(***************************************************************************)
(* load_scroll_data_around_current_position, lines 153-182.  When the      *)
(* chunk read is empty on an axis the marking of its faces raises: the     *)
(* position and the chunk are already replaced, the matrix is not reset.   *)
(***************************************************************************)
LoadScrollDataAroundCurrentPosition ==
    LET pos == GetCurrentPosition(canvas_display_matrix)
        chunk == Chunk(pos)
    IN  /\ position_yxz' = pos
        /\ scrolldata_loaded' = chunk
        /\ canvas_display_matrix' =
              IF MarkingRaises(chunk) THEN canvas_display_matrix
              ELSE StripTranslation(canvas_display_matrix)
        /\ loads' = loads + 1

\* key_handler, lines 114-134
KeyHandler(keysym) ==
    /\ Delivered
    /\ keysym \in {"l", "a", "s", "d"}
    /\ IF keysym = "l"
       THEN LoadScrollDataAroundCurrentPosition
       ELSE /\ canvas_display_matrix' =
                  Rotate90(canvas_display_matrix,
                           CHOOSE a \in 0..2 : <<"a", "s", "d">>[a + 1] = keysym)
            /\ UNCHANGED <<position_yxz, scrolldata_loaded, loads>>
    /\ UNCHANGED <<drag, window_close_requested>>
    /\ Recorded("key", keysym)

\* on_canvas_drag_start and Drag.on_drag_start
OnCanvasDragStart(state) ==
    /\ Pointer
    /\ ~drag.drag_in_progress
    /\ drag' = [drag_in_progress |-> TRUE,
                drag_start_x |-> DragStartPoint[1],
                drag_start_y |-> DragStartPoint[2],
                drag_is_rotation |-> IsAltPressed(state),
                transformation_matrix |-> Identity4]
    /\ UNCHANGED <<position_yxz, canvas_display_matrix, scrolldata_loaded,
                   window_close_requested, loads>>
    /\ Recorded("press", IsAltPressed(state))

\* on_canvas_drag_move and Drag.on_drag_move; Tk delivers a motion event
\* only between the press and the release of the button
OnCanvasDragMove(point) ==
    /\ Pointer
    /\ drag.drag_in_progress
    /\ drag' = [drag EXCEPT !.transformation_matrix =
                               DragMatrix(drag, point[1], point[2])]
    /\ UNCHANGED <<position_yxz, canvas_display_matrix, scrolldata_loaded,
                   window_close_requested, loads>>
    /\ Recorded("motion", point)

\* on_canvas_drag_end and Drag.on_drag_end
OnCanvasDragEnd ==
    /\ Pointer
    /\ drag.drag_in_progress
    /\ canvas_display_matrix' =
          RollUp(canvas_display_matrix, drag.transformation_matrix)
    /\ drag' = [drag EXCEPT !.drag_in_progress = FALSE,
                            !.transformation_matrix = Unset]
    /\ UNCHANGED <<position_yxz, scrolldata_loaded, window_close_requested,
                   loads>>
    /\ Recorded("release", "")

\* on_scroll, lines 199-210: the matrix of zoom, rotate_sideways or
\* move_in_out that the wheel event composes the display matrix with
ScrollMatrix(state, num) ==
    LET delta == IF num = 4 THEN 1 ELSE -1
    IN  IF IsCtrlPressed(state) THEN ZoomMatrix(delta)
        ELSE IF IsAltPressed(state) THEN RotateSidewaysMatrix(delta)
        ELSE MoveInOutMatrix(delta)

\* on_scroll, lines 198-210, with zoom, rotate_sideways and move_in_out
OnScroll(state, num) ==
    /\ Delivered
    /\ canvas_display_matrix' =
          MatMul(canvas_display_matrix, ScrollMatrix(state, num))
    /\ UNCHANGED <<position_yxz, drag, scrolldata_loaded,
                   window_close_requested, loads>>
    /\ Recorded("scroll", <<state, num>>)

\* request_window_close, the WM_DELETE_WINDOW handler
RequestWindowClose ==
    /\ Pointer
    /\ window_close_requested' = TRUE
    /\ UNCHANGED <<position_yxz, canvas_display_matrix, drag,
                   scrolldata_loaded, loads>>
    /\ Recorded("close", "")

(***************************************************************************)
(* animate, lines 212-220: update_canvas, update_nav3d_display, then       *)
(* before_exit and destroy, or the next tick.  An exception raised by      *)
(* update_nav3d_display leaves animate before it reschedules itself.       *)
(***************************************************************************)
Animate ==
    /\ program \in {"nav", "keys"}
    /\ ui = "running"
    /\ rendered' = IF scrolldata_loaded = Unset THEN rendered
                   ELSE RenderMatrix(canvas_display_matrix, drag)
    /\ IF Nav3dRaises(GetCurrentPosition(canvas_display_matrix))
       THEN ui' = "stalled" /\ UNCHANGED scrolldata_open
       ELSE IF window_close_requested
       THEN ui' = "destroyed" /\ scrolldata_open' = FALSE
       ELSE UNCHANGED <<ui, scrolldata_open>>
    /\ UNCHANGED <<program, dlVars, nameVars, dset_scale, dset_shape,
                   canvas_size, position_yxz, canvas_display_matrix, drag,
                   scrolldata_loaded, window_close_requested, loads, events,
                   hist>>

NextNav ==
    \/ \E keysym \in {"l", "a", "s", "d"} : KeyHandler(keysym)
    \/ \E state \in EventStates : OnCanvasDragStart(state)
    \/ \E point \in DragPoints : OnCanvasDragMove(point)
    \/ OnCanvasDragEnd
    \/ \E state \in EventStates, num \in {4, 5} : OnScroll(state, num)
    \/ RequestWindowClose
    \/ Animate

NextKeys ==
    \/ \E keysym \in {"l", "a", "s", "d"} : KeyHandler(keysym)
    \/ \E state \in EventStates, num \in {4, 5} : OnScroll(state, num)
    \/ Animate

NextDl == \/ \E a \in Actions, fault \in {"none", "open"} : Start(a, fault)
          \/ \E fault \in Faults : ProcessTile(fault)
NextName == NameProbe

Init == InitDl \/ InitName \/ InitNav \/ InitKeys
Next == NextDl \/ NextName \/ NextNav

Spec == Init /\ [][Next]_vars
SpecDl == InitDl /\ [][NextDl]_vars
SpecName == InitName /\ [][NextName]_vars
SpecNav == InitNav /\ [][NextNav]_vars
SpecKeys == InitKeys /\ [][NextKeys]_vars

(***************************************************************************)
(* What the claims speak of.                                               *)
(***************************************************************************)
SeqSet(q) == {q[j] : j \in 1..Len(q)}

\* the tiles whose half-open 500-unit box meets the region r
Intersecting(r) ==
    {t \in GridBox(r) :
        /\ TILE * t[1] < r[4] /\ TILE * (t[1] + 1) > r[3]
        /\ TILE * t[2] < r[2] /\ TILE * (t[2] + 1) > r[1]
        /\ TILE * t[3] < r[6] /\ TILE * (t[3] + 1) > r[5]}

NonNegative(r) == \A k \in 1..6 : r[k] >= 0

\* the tiles whose loop body ran to its end in this run
Completed == SeqSet(SubSeq(order, 1, count))

WroteSome(t) == \E i \in 1..NLevels : <<t, i>> \in written
WroteAll(t) == \A i \in 1..NLevels : <<t, i>> \in written

\* C1: a run that ends normally over a region with non-negative bounds has
\* entered the loop body of every tile whose 500-unit box meets the region,
\* and of no tile twice, whatever the action mode.
C1_EveryTileExactlyOnce ==
    (program = "dl" /\ pc = "done" /\ NonNegative(roi)) =>
        /\ Intersecting(roi) \subseteq SeqSet(order)
        /\ Cardinality(SeqSet(order)) = Len(order)

\* C2 as stated: at the end of a download-apply run the tiles written are
\* exactly the tiles newly downloaded in it, and at the end of an apply run
\* every tile the loops reached is written.
C2_AsStated ==
    (program = "dl" /\ pc \in {"done", "failed"}) =>
        /\ actions = "download-apply" =>
              \A t \in GridBox(roi) : WroteSome(t) <=> t \in newly
        /\ actions = "apply" => \A t \in SeqSet(order) : WroteSome(t)

\* C2 amended: in download-apply mode no tile is written unless it was newly
\* downloaded in the run, and a tile whose loop body ended without raising
\* is written at every level if and only if it was newly downloaded in the
\* run; in apply mode every tile whose loop body ended without raising is
\* written at every level, newly downloaded or not.
C2_WrittenIffNewlyDownloaded ==
    program = "dl" =>
        /\ actions = "download-apply" =>
              /\ \A t \in GridBox(roi) : WroteSome(t) => t \in newly
              /\ \A t \in Completed : WroteAll(t) <=> t \in newly
        /\ actions = "apply" =>
              /\ newly = {}
              /\ \A t \in Completed : WroteAll(t)

\* a download-apply run that left one file alone and fetched and wrote another
C2_Witness ==
    /\ program = "dl" /\ actions = "download-apply" /\ pc = "done"
    /\ \E t \in Completed : t \in newly /\ WroteAll(t)
    /\ \E t \in Completed : t \notin newly /\ ~WroteSome(t)

\* C3: no step of a dry run fetches, creates a file or touches the
\* container: download_dir and the store stay as the run found them, nothing
\* is requested and no container handle exists.
C3_DummyRunChangesNothing ==
    [][(program = "dl" /\ actions' = "dummy") =>
          /\ files' = files
          /\ store' = store
          /\ fetched' = {} /\ newly' = {} /\ written' = {}
          /\ f' = "none"]_vars

\* a dry run that ended after passing a tile whose file is missing
C3_Witness ==
    /\ program = "dl" /\ actions = "dummy" /\ pc = "done" /\ count > 1
    /\ \E t \in Completed : NameOf(t) \notin files
    /\ \E t \in Completed : NameOf(t) \in files

WholeVolume ==
    roi = <<0, h5fs_scroll_shape[2], 0, h5fs_scroll_shape[1],
            0, h5fs_scroll_shape[3]>>

\* index idx of axis k of the dataset of level i lies in a written box
Covered(i, k, idx) ==
    \E b \in store : /\ b.level = i
                     /\ b.origin[k] <= idx
                     /\ idx < b.origin[k] + b.shape[k]

\* C4: once an apply run over the whole declared volume has ended normally,
\* every index of every axis of every level's dataset, 0 .. ceil(dim/S) - 1,
\* lies inside the box written for some tile.
C4_EveryIndexWritten ==
    (program = "dl" /\ pc = "done" /\ actions = "apply" /\ WholeVolume) =>
        \A i \in 1..NLevels : \A k \in 1..3 :
            \A idx \in 0..(DsetShape(i)[k] - 1) : Covered(i, k, idx)

\* C5: every box in the store starts, on each axis, at g*500 in the
\* canonical level and at floor(g*500/S) in the level of scale S, and the
\* boxes of two tiles adjacent on an axis abut in every level: the second
\* starts where the first ends.
C5_OriginsAbut ==
    program = "dl" =>
        /\ \A b \in store : \A k \in 1..3 :
              /\ b.origin[k] * Factor(b.level) <= b.tile[k] * TILE
              /\ b.tile[k] * TILE < (b.origin[k] + 1) * Factor(b.level)
        /\ \A b \in store : \A c \in store : \A k \in 1..3 :
              (c.level = b.level /\ c.tile[k] = b.tile[k] + 1) =>
                  c.origin[k] = b.origin[k] + b.shape[k]

\* two tiles adjacent along x written at the coarsest level
C5_Witness ==
    /\ program = "dl"
    /\ \E b \in store : \E c \in store :
          /\ b.level = NLevels /\ c.level = NLevels
          /\ c.tile[2] = b.tile[2] + 1 /\ b.tile[2] >= 1
          /\ c.tile[1] = b.tile[1] /\ c.tile[3] = b.tile[3]

(***************************************************************************)
(* Reading a tile name back: the text between "cell_yxz_" and ".tif" is    *)
(* split at "_" and each field read as a decimal number.                   *)
(***************************************************************************)
DigitValue(c) == CHOOSE d \in 0..9 : DigitChar[d + 1] = c

RECURSIVE ToInt(_)
ToInt(s) ==
    IF Len(s) = 0 THEN 0
    ELSE 10 * ToInt(SubSeq(s, 1, Len(s) - 1)) + DigitValue(s[Len(s)])

RECURSIVE SplitFields(_, _)
\* the fields of s, cur being the field read so far
SplitFields(s, cur) ==
    IF Len(s) = 0 THEN <<cur>>
    ELSE IF Head(s) = "_" THEN <<cur>> \o SplitFields(Tail(s), <<>>)
    ELSE SplitFields(Tail(s), Append(cur, Head(s)))

\* the <<x, y, z>> a name stands for
ParseName(name) ==
    LET fields == SplitFields(SubSeq(name, Len(Prefix) + 1,
                                     Len(name) - Len(Suffix)), <<>>)
    IN  <<ToInt(fields[2]) - 1, ToInt(fields[1]) - 1, ToInt(fields[3]) - 1>>

HasNegative(t) == \E k \in 1..3 : t[k] < 0

\* C6: two calls of _get_grid_cell_original_name that both return a name
\* return the same name only for the same (x, y, z), and reading the three
\* 1-based fields of a returned name back gives the arguments of the call.
C6_NameInjectiveRoundTrip ==
    (program = "name" /\ named # <<>>) =>
        /\ (~named[1].raised /\ ~named[2].raised
               /\ named[1].name = named[2].name) => probe[1] = probe[2]
        /\ \A j \in 1..2 :
              ~named[j].raised =>
                  /\ Len(SplitFields(named[j].name, <<>>)) = 5
                  /\ ParseName(named[j].name) = probe[j]

\* two different triples named, one of them needing a fourth digit
C6_Witness ==
    /\ program = "name" /\ named # <<>>
    /\ ~named[1].raised /\ ~named[2].raised
    /\ probe[1] # probe[2]
    /\ probe[1][2] = Pow10(MaxDigits) - 1
    /\ probe[2][2] = Pow10(MaxDigits - 1) - 1
    /\ Len(named[1].name) > Len(named[2].name)

\* C7: a call of _get_grid_cell_original_name raises exactly when one of
\* its arguments is negative, and no loop body of download_and_apply_roi is
\* entered with a negative loop variable, the region having negative lower
\* bounds or not.
C7_NegativeRaisesNeverPassed ==
    /\ (program = "name" /\ named # <<>>) =>
          \A j \in 1..2 : named[j].raised <=> HasNegative(probe[j])
    /\ program = "dl" =>
          /\ pc = "tile" => (x >= 0 /\ y >= 0 /\ z >= 0)
          /\ \A t \in SeqSet(order) : ~HasNegative(t)

\* a run over a region with negative lower bounds on two axes that ended
C7_Witness ==
    /\ program = "dl" /\ pc = "done" /\ count > 1
    /\ roi[1] < 0 /\ roi[3] < 0

LexLess(s, t) ==
    \/ s[1] < t[1]
    \/ s[1] = t[1] /\ s[2] < t[2]
    \/ s[1] = t[1] /\ s[2] = t[2] /\ s[3] < t[3]

\* C8: the loop bodies of a run are entered in strictly increasing
\* lexicographic order of (y, x, z), in every action mode.
C8_LexicographicOrder ==
    program = "dl" =>
        \A j \in 1..(Len(order) - 1) : LexLess(order[j], order[j + 1])

\* an apply run whose second row started left of where the first one ended
C8_Witness ==
    /\ program = "dl" /\ pc = "done" /\ actions = "apply"
    /\ \E j \in 1..(Len(order) - 1) :
          order[j + 1][1] > order[j][1] /\ order[j + 1][2] < order[j][2]

\* a loop body of this run raised: it was entered and did not end
Raised == Len(order) > count

\* C9: once a loop body has raised, the run has failed, the tile that raised
\* is the last one entered, the container handle the run opened is closed,
\* and no later step of the same run fetches, creates a file or writes.
C9_ErrorAbortsRun ==
    /\ [](program = "dl" /\ Raised =>
             /\ pc = "failed"
             /\ Len(order) = count + 1
             /\ f # "open"
             /\ Applying(actions) => f = "closed")
    /\ [][(program = "dl" /\ Raised /\ runs' = runs) =>
             UNCHANGED <<files, store, fetched, newly, written, order>>]_vars

\* a run that wrote one tile, failed on the second and left others untouched
C9_Witness ==
    /\ program = "dl" /\ pc = "failed" /\ Raised /\ f = "closed"
    /\ count >= 1 /\ written # {}
    /\ Len(order) < Cardinality(Intersecting(roi))

SpecDlName == (InitDl \/ InitName) /\ [][NextDl \/ NextName]_vars

\* C10: load_scroll_data_around_current_position never runs while a drag is
\* in progress: every step that runs it starts with drag_in_progress false.
C10_RecenterOnlyWhenIdle ==
    [][(program = "nav" /\ loads' # loads) => ~drag.drag_in_progress]_vars

(***************************************************************************)
(* The navigator's claims.                                                 *)
(***************************************************************************)
Last(q) == q[Len(q)]
\* the step is a run of the handler op
Ran(op) == Len(hist') = Len(hist) + 1 /\ Last(hist').op = op

\* C11: a drag-end that follows a drag-start leaves the persistent transform
\* equal to M * M_drag, M_drag being the provisional transform held at the
\* release; afterwards no drag is in progress and the provisional transform
\* is discarded.
C11_DragEndRollsUp ==
    [][(program = "nav" /\ Ran("release") /\ drag.drag_in_progress)
        => /\ canvas_display_matrix' =
                 MatMul(canvas_display_matrix, drag.transformation_matrix)
           /\ ~drag'.drag_in_progress
           /\ drag'.transformation_matrix = Unset]_vars

\* a drag that moved the view has just been released on a scaled transform
C11_Witness ==
    /\ program = "nav"
    /\ Len(hist) = 4
    /\ hist[2].op = "press" /\ hist[3].op = "motion" /\ hist[4].op = "release"
    /\ hist[4].M # hist[3].M
    /\ hist[1].M # Identity4
    /\ ~drag.drag_in_progress

\* what update_canvas shifts the raster back by
Unshift ==
    << <<ONE, 0, 0, -(canvas_size[2] \div 2) * ONE>>,
       <<0, ONE, 0, -(canvas_size[1] \div 2) * ONE>>,
       <<0, 0, ONE, 0>>, <<0, 0, 0, ONE>> >>
\* a transform framed by the center shift and the canvas unshift
Framed(E) == MatMul(SHIFT_TO_SCROLLDATA_LOADED_CENTER, MatMul(E, Unshift))

\* C12: the transform a render tick hands to the resampler is M * M_drag,
\* framed by the center shift and the canvas unshift, when a drag is in
\* progress and M framed the same way otherwise; whenever a drag is in
\* progress the provisional transform is defined.
C12_RenderUsesProvisional ==
    (program \in {"nav", "keys"}) =>
        /\ drag.drag_in_progress => drag.transformation_matrix # Unset
        /\ rendered # Unset =>
              rendered = Framed(IF drag.drag_in_progress
                                THEN MatMul(canvas_display_matrix,
                                            drag.transformation_matrix)
                                ELSE canvas_display_matrix)

\* a tick has rendered while a drag that moved the view is in progress
C12_Witness ==
    /\ program = "nav"
    /\ rendered # Unset
    /\ drag.drag_in_progress
    /\ drag.transformation_matrix # Identity4

\* the position get_current_position reports in this state
Reported == GetCurrentPosition(canvas_display_matrix)
\* the last handler run was the recenter of the key L
JustRecentered == Last(hist).op = "key" /\ Last(hist).arg = "l"
\* the state is the one a recenter left: the first load or the key L
AfterRecenter ==
    /\ program \in {"nav", "keys"}
    /\ Last(hist).op = "init" \/ JustRecentered

\* C13: a recenter that directly follows a recenter, no other handler having
\* run in between, leaves the stored position and the reported position as
\* the first recenter left them.
C13_RecenterTwice ==
    [][(program \in {"nav", "keys"} /\ JustRecentered /\ Ran("key")
            /\ Last(hist').arg = "l")
        => /\ position_yxz' = position_yxz
           /\ Reported' = Reported]_vars

\* the scale of the declared level with the largest scale not exceeding
\* 1 / current_zoom, the canonical level when there is none
WantedScale(M) ==
    LET zoom == GetCurrentZoom(M)
        fit == {i \in 1..NLevels : Factor(i) * zoom <= ONE}
    IN  IF fit = {} THEN 1
        ELSE Factor(CHOOSE i \in fit : \A j \in fit : Factor(j) <= Factor(i))

\* C14: after every recenter the dataset the cache window was read from is
\* the declared level with the largest scale not exceeding 1 / current_zoom,
\* and the window lies around the stored position divided by that scale.
C14_LevelFollowsZoom ==
    (AfterRecenter /\ canvas_display_matrix[1][1] > 0)
    => LET S == WantedScale(canvas_display_matrix)
       IN  /\ dset_scale = S
           /\ scrolldata_loaded =
                 Chunk([k \in 1..3 |-> Round(position_yxz[k], S)])

\* C15: after every recenter, the first load included, at a position inside
\* the volume the cache window is 2 * pad + 1 long on each axis and its
\* voxel at local index pad on each axis is the voxel at the stored position.
C15_WindowIsCenteredCube ==
    (AfterRecenter /\ \A k \in 1..3 : position_yxz[k] \in 0..(dset_shape[k] - 1))
    => \A k \in 1..3 :
          /\ scrolldata_loaded.shape[k] = 2 * SCROLLDATA_CACHE_PAD + 1
          /\ scrolldata_loaded.first[k] + SCROLLDATA_CACHE_PAD = position_yxz[k]

\* the transform in effect: the persistent one, times the provisional one
\* while a drag is in progress
Effective ==
    IF drag.drag_in_progress
    THEN MatMul(canvas_display_matrix, drag.transformation_matrix)
    ELSE canvas_display_matrix

\* E is a rotation about the window's center: no translation, and every row
\* of its 3x3 block of unit length within the precision of the arithmetic
IsRotation(E) ==
    \A k \in 1..3 :
        /\ E[k][4] = 0
        /\ LET n2 == E[k][1] * E[k][1] + E[k][2] * E[k][2] + E[k][3] * E[k][3]
           IN  n2 \div ((ONE * ONE) \div 100) \in {99, 100}

\* the source coordinate, less the window's center, that the matrix R gives
\* the output pixel <<i, j, 0>>, in units of 1 / ONE
SourceOffset(R, i, j) ==
    [k \in 1..3 |-> R[k][1] * i + R[k][2] * j + R[k][4]
                       - SCROLLDATA_CACHE_PAD * ONE]

\* the corners, the edge midpoints and the center of the raster; the source
\* coordinate is affine in the pixel, so its extremes are at the corners
RasterProbes ==
    LET pw == canvas_size[1] \div 2
        ph == canvas_size[2] \div 2
    IN  {0, ph, 2 * ph} \X {0, pw, 2 * pw}

WithinWindow(R) ==
    \A o \in RasterProbes : \A k \in 1..3 :
        /\ SourceOffset(R, o[1], o[2])[k] <= SCROLLDATA_CACHE_PAD * ONE
        /\ SourceOffset(R, o[1], o[2])[k] >= -SCROLLDATA_CACHE_PAD * ONE

PadIsLeast ==
    /\ SCROLLDATA_CACHE_PAD = 260
    /\ SCROLLDATA_CACHE_PAD * SCROLLDATA_CACHE_PAD >= 3 * CANVAS_PAD * CANVAS_PAD
    /\ (SCROLLDATA_CACHE_PAD - 1) * (SCROLLDATA_CACHE_PAD - 1)
          < 3 * CANVAS_PAD * CANVAS_PAD

\* C16 as stated: the padding is 260, the least integer whose square is at
\* least 3 * 150^2, and for every pixel of the rendered raster and every
\* rotation the transform holds the source coordinate sampled lies within
\* pad of the window's center on each axis.
C16_AsStated ==
    (program \in {"nav", "keys"} /\ rendered # Unset /\ IsRotation(Effective))
    => PadIsLeast /\ WithinWindow(rendered)

\* C16 amended: the same for a rendered raster of at most 2 * CANVAS_PAD + 1
\* pixels a side; a larger canvas is sampled outside the window.
C16_WithinWindowOnPaddedCanvas ==
    (program \in {"nav", "keys"} /\ rendered # Unset /\ IsRotation(Effective)
        /\ canvas_size[1] \div 2 <= CANVAS_PAD
        /\ canvas_size[2] \div 2 <= CANVAS_PAD)
    => PadIsLeast /\ WithinWindow(rendered)

\* a tick has rendered a raster of 301 x 301 pixels under a rotation that
\* is not the identity
C16_Witness ==
    /\ program = "nav"
    /\ rendered # Unset
    /\ IsRotation(Effective)
    /\ Effective # Identity4
    /\ canvas_size = <<2 * CANVAS_PAD + 1, 2 * CANVAS_PAD + 1>>
    /\ \E k \in 1..3 : Effective[k][k] \notin {0, ONE, -ONE}

\* the last n handlers run were the key keysym
LastWere(n, keysym) ==
    /\ Len(hist) > n
    /\ \A m \in (Len(hist) - n + 1)..Len(hist) :
          hist[m].op = "key" /\ hist[m].arg = keysym

\* C17: four successive rotate90 calls with the same axis, whichever of the
\* three it is and whatever the transform before the first, leave the whole
\* transform, its 3x3 rotation block included, exactly as it was before the
\* first call.
C17_FourQuarterTurns ==
    (program \in {"nav", "keys"}) =>
        /\ \A keysym \in {"a", "s", "d"} :
              LastWere(4, keysym)
              => canvas_display_matrix = hist[Len(hist) - 4].M
        /\ \A axis \in 0..2 :
              Rotate90(Rotate90(Rotate90(Rotate90(canvas_display_matrix, axis),
                                         axis), axis), axis)
                 = canvas_display_matrix

\* the same key has turned a scaled transform four times, and the turns in
\* between changed it
C17_Witness ==
    /\ program = "keys"
    /\ \E keysym \in {"a", "s", "d"} : LastWere(4, keysym)
    /\ hist[1].M # Identity4
    /\ hist[2].M # hist[1].M
    /\ hist[3].M # hist[1].M
    /\ hist[4].M # hist[1].M

\* the handler run as the m-th was zoom(delta): the wheel with Control held
WasZoom(m, delta) ==
    /\ m \in 2..Len(hist)
    /\ hist[m].op = "scroll"
    /\ IsCtrlPressed(hist[m].arg[1])
    /\ (hist[m].arg[2] = 4) <=> (delta = 1)

\* a and b are the same number within the precision of the arithmetic: two
\* roundings to a unit of 1 / ONE
Same(a, b) == a - b \in -2..2

\* C18: zoom(+1) directly followed by zoom(-1), and zoom(-1) directly
\* followed by zoom(+1), leave the scale factor of the transform, and every
\* entry of it, at the value held before the two calls.
C18_OppositeZoomsCancel ==
    (program \in {"nav", "keys"}) =>
        \A delta \in {1, -1} :
            (WasZoom(Len(hist) - 1, delta) /\ WasZoom(Len(hist), -delta))
            => LET M0 == hist[Len(hist) - 2].M
               IN  \A i \in 1..4 : \A j \in 1..4 :
                      Same(canvas_display_matrix[i][j], M0[i][j])

\* two opposite zoom steps have just run on a transform that an earlier
\* handler had already changed
C18_Witness ==
    /\ program = "keys"
    /\ Len(hist) = 4
    /\ \E delta \in {1, -1} : WasZoom(3, delta) /\ WasZoom(4, -delta)
    /\ hist[2].M # hist[1].M
    /\ hist[3].M # hist[2].M
    /\ hist[2].M[1][2] # 0

\* the m-th handler run was a recenter, or the first load, that completed
Recentered(m) ==
    /\ hist[m].op = "init" \/ (hist[m].op = "key" /\ hist[m].arg = "l")
    /\ ~MarkingRaises(Chunk(hist[m].pos))

\* from the r-th handler on, every wheel operation was followed by a
\* recenter: operation, recenter, operation, recenter up to the last one
RecenteredAfterEach(r) ==
    /\ r < Len(hist)
    /\ (Len(hist) - r) % 2 = 0
    /\ Recentered(r)
    /\ \A m \in (r + 1)..Len(hist) :
          IF (m - r) % 2 = 1 THEN hist[m].op = "scroll" ELSE Recentered(m)

\* the transform after the r-th handler composed with the wheel operations
\* r + 1, r + 3, ... up to m, no recenter in between
RECURSIVE Composed(_, _)
Composed(r, m) ==
    IF m <= r THEN hist[r].M
    ELSE MatMul(Composed(r, m - 2),
                ScrollMatrix(hist[m].arg[1], hist[m].arg[2]))

\* the position one recenter after the whole sequence stores
OncePosition(r) ==
    LET M == Composed(r, Len(hist) - 1)
    IN  [k \in 1..3 |-> hist[r].pos[k] + Round(M[k][4], ONE)]

\* C19: for any sequence of zoom, rotate_sideways and move_in_out
\* operations the position stored by recentering after each operation
\* equals the position stored by recentering once after the whole sequence.
C19_RecenterCommutes ==
    (program \in {"nav", "keys"}) =>
        \A r \in 1..Len(hist) :
            RecenteredAfterEach(r) => position_yxz = OncePosition(r)

\* the step is a render tick: animate ran, no handler did
Tick == program = "nav" /\ ui = "running" /\ hist' = hist /\ events' = events

\* C20: once a window-close request is latched the very next render tick
\* closes the store handle and destroys the window, scheduling no further
\* tick; with the handle closed nothing runs any more; and the request
\* itself changes nothing a recenter works on.
C20_CloseAtNextTick ==
    /\ [](program = "nav" /\ ~scrolldata_open => ui = "destroyed")
    /\ [][/\ (Tick /\ window_close_requested)
              => (ui' = "destroyed" /\ ~scrolldata_open')
          /\ (program = "nav" /\ ui = "destroyed") => UNCHANGED navVars
          /\ (program = "nav" /\ Ran("close"))
              => (window_close_requested'
                  /\ UNCHANGED <<position_yxz, canvas_display_matrix,
                                 scrolldata_loaded, loads, scrolldata_open,
                                 ui>>)]_vars

\* C21: a render tick that raises, as a read of the store outside the
\* dataset does, leaves the tick loop alive: the following tick is still
\* scheduled, so that a window-close request latched later can be honoured.
C21_TickLoopSurvives ==
    [][(Tick /\ Nav3dRaises(Reported) /\ ~window_close_requested)
        => ui' = "running"]_vars

\* the drag as its start left it: the start point and the kind of drag,
\* nothing of the moves since
AsStarted(d) == [d EXCEPT !.transformation_matrix = Identity4]

\* C22: a drag-move changes the provisional transform alone: the persistent
\* transform, the stored position and the cache window stay as they are,
\* no drag ends or starts, and the provisional transform it leaves is the
\* one the pointer's offset from the drag-start point gives, whatever the
\* earlier moves of the same drag were.
C22_DragMoveIsProvisional ==
    [][(program = "nav" /\ Ran("motion"))
        => /\ UNCHANGED <<canvas_display_matrix, position_yxz,
                          scrolldata_loaded, loads>>
           /\ drag' = [drag EXCEPT !.transformation_matrix =
                          DragMatrix(AsStarted(drag), Last(hist').arg[1],
                                     Last(hist').arg[2])]]_vars

\* a second move of the same drag, to another point, has replaced what the
\* first move left
C22_Witness ==
    /\ program = "nav"
    /\ Len(hist) = 4
    /\ hist[2].op = "press" /\ hist[3].op = "motion" /\ hist[4].op = "motion"
    /\ hist[3].arg # hist[4].arg
    /\ drag.drag_in_progress
    /\ drag.transformation_matrix # Identity4

\* C23: a recenter leaves the translation column of the transform zero and
\* its bottom row (0, 0, 0, 1), leaves the 3x3 block as it was, and stores
\* the old position plus, axis by axis, the rounded translation the
\* transform held before the call.
C23_RecenterAbsorbsTranslation ==
    [][(program \in {"nav", "keys"} /\ Ran("key") /\ Last(hist').arg = "l")
        => /\ \A i \in 1..3 :
                 /\ canvas_display_matrix'[i][4] = 0
                 /\ canvas_display_matrix'[4][i] = 0
                 /\ \A j \in 1..3 :
                       canvas_display_matrix'[i][j] = canvas_display_matrix[i][j]
           /\ canvas_display_matrix'[4][4] = ONE
           /\ \A k \in 1..3 :
                 position_yxz'[k] =
                    position_yxz[k] + Round(canvas_display_matrix[k][4], ONE)]_vars

\* the scalar product of rows i and j of the 3x3 block of E
RowDot(E, i, j) == E[i][1] * E[j][1] + E[i][2] * E[j][2] + E[i][3] * E[j][3]

Abs(a) == IF a < 0 THEN -a ELSE a

\* the 3x3 block of E is a uniform non-zero scale times a rotation, within
\* the precision of the arithmetic: rows of one non-zero length (to 2%),
\* at right angles to each other (to 1% of that length squared)
IsScaledRotation(E) ==
    /\ \A i \in 1..3 : RowDot(E, i, i) > 0
    /\ \A i \in 1..3 : \A j \in 1..3 :
          IF i = j THEN TRUE
          ELSE /\ Abs(RowDot(E, i, i) - RowDot(E, j, j)) <= RowDot(E, i, i) \div 50
               /\ Abs(RowDot(E, i, j)) <= RowDot(E, i, i) \div 100

\* C24: in every state the navigator reaches, whatever drags, quarter
\* turns, zooms, sideways rotations, moves and recenters led there, the
\* bottom row of the transform is (0, 0, 0, 1) and its 3x3 block is a
\* uniform non-zero scale times a rotation, so that it is invertible and
\* holds neither shear nor a non-uniform scale.
C24_TransformStaysSimilarity ==
    (program \in {"nav", "keys"}) =>
        /\ canvas_display_matrix[4] = <<0, 0, 0, ONE>>
        /\ IsScaledRotation(canvas_display_matrix)

\* a rotating drag has been rolled up into a transform that was scaled
\* from the start
C24_Witness ==
    /\ program = "nav"
    /\ Last(hist).op = "release"
    /\ hist[1].M # Identity4
    /\ \E i \in 1..3 : \E j \in 1..3 :
          i # j /\ canvas_display_matrix[i][j] \notin {0, ONE, -ONE}

\* the store holds tile t at every level
Stored(t) == \A i \in 1..NLevels : Box(t, i) \in store

\* C25 as stated: when a download-apply run has ended normally, whatever
\* runs came before it, every tile of the region whose file is in the
\* download directory is in the store at every level.
C25_ArtifactImpliesStored ==
    (program = "dl" /\ pc = "done" /\ actions = "download-apply") =>
        \A t \in Intersecting(roi) : NameOf(t) \in files => Stored(t)

\* C25 amended: when a download-apply run has ended normally, whatever runs
\* came before it, every tile whose file that run fetched is in the store at
\* every level; a file that was there before the run does not put its tile
\* into the store.
C25_NewlyFetchedIsStored ==
    (program = "dl" /\ pc = "done" /\ actions = "download-apply") =>
        \A t \in newly : NameOf(t) \in files /\ Stored(t)

\* a second run, download-apply, that fetched and stored one tile and left
\* another, whose file was already there, out of the store
C25_Witness ==
    /\ program = "dl" /\ pc = "done" /\ actions = "download-apply"
    /\ runs = 2
    /\ \E t \in newly : Stored(t)
    /\ \E t \in Intersecting(roi) :
          NameOf(t) \in files /\ \A i \in 1..NLevels : Box(t, i) \notin store

\* the tiles the loops enumerate from tile t on when x0 and z0 keep the
\* region's lower bounds, as they do in a run that applies no tile
RECURSIVE EnumeratedFrom(_)
EnumeratedFrom(t) ==
    IF t = NoTile THEN <<>>
    ELSE <<t>> \o EnumeratedFrom(NextTile(t[1], t[2], t[3], roi[1], roi[5]))
PlainOrder == EnumeratedFrom(ScanY(RangeStart(roi[3]), roi[1], roi[5]))

\* C26: when a run that applies tiles has ended normally over a region
\* with non-negative bounds, the tiles it enumerated are, in order, the
\* tiles a run over the same region that applies none enumerates, and as
\* many as the total count announced.
C26_ApplyLeavesEnumeration ==
    (program = "dl" /\ pc = "done" /\ Applying(actions) /\ written # {}
        /\ NonNegative(roi)) =>
        /\ order = PlainOrder
        /\ Len(order) = total_count

\* a run that applies no tile and ends normally enumerates PlainOrder
C26_PlainRunEnumeratesPlainOrder ==
    (program = "dl" /\ pc = "done" /\ written = {}) => order = PlainOrder

====
